---------------------------- MODULE Spec2Model ----------------------------
(***************************************************************************)
(* Ledger store of the satisatang bot: the MongoDB-backed service           *)
(* (MongoDBService) that keeps one daily record per user and date, with     *)
(* its incomes and expenses lists and their cached totals, and the          *)
(* transfers collection.                                                    *)
(*                                                                          *)
(* The daily_records collection is a sequence of documents in insertion     *)
(* order; FindOne and UpdateOne act on the first document that matches      *)
(* their filter.  Amounts are integers (the code uses float64; sums of      *)
(* small integers are exact in both).  Dates are day numbers.  ObjectIDs    *)
(* are the naturals 1, 2, ... handed out by nextId; the empty transfer_id   *)
(* string is 0.  Storage calls do not fail.                                 *)
(*                                                                          *)
(* Spec runs the calls of the service one at a time, each as one step.      *)
(* ConcSpec runs two requests at once, one storage round trip per step.     *)
(***************************************************************************)
EXTENDS Integers, Sequences, FiniteSets, TLC

\* ---- bounds of the model
MaxIds == 3
MaxDay == 2
MaxAmount == 2
MaxLegs == 1
\* ObjectIDs handed out, and calls begun, while requests overlap
MaxConcIds == 2
MaxCalls == 3
\* the largest monthly budget of a category
MaxBudget == 5
\* the days of a calendar month
DaysPerMonth == 1
\* the transactions of one classifier response
MaxBatch == 2
\* the largest limit a search is called with
MaxLimit == 2
\* the limits SearchTransactions and SearchByDateRange use for limit <= 0
DefaultSearchLimit == 20
DefaultRangeLimit == 50

Users == {"u1"}
Dates == 1..MaxDay
Amounts == 1..MaxAmount
TxTypes == {"income", "expense"}
\* the reserved category of transfer legs (a Thai literal in the source)
TransferCategory == "transfer"
Categories == {"food"}
\* usetype: 0 = cash, 1 = credit card, 2 = bank
PayMethods ==
    { [usetype |-> 0, bankname |-> "", creditcardname |-> ""],
      [usetype |-> 2, bankname |-> "KBANK", creditcardname |-> ""] }
\* the requests in flight at once
Procs == {"p1", "p2"}
\* two LINE users next to each other
Tenants == {"u1", "u2"}
BudgetAmounts == 1..MaxBudget
\* the category shown for an entry without one (a Thai literal in the source)
OtherCategory == "other"
\* the keys of the map of GetMonthlySpendingByCategory
SpendingCategories == Categories \cup {"", OtherCategory, TransferCategory}

VARIABLES
    records,    \* the daily_records collection: a sequence of DailyRecord
    transfers,  \* the transfers collection: a sequence of TransferRecord
    today,      \* the calendar date time.Now() formats to
    nextId,     \* the next ObjectID primitive.NewObjectID() returns
    procs,      \* per request: the call it runs, its locals, where it is
    overlap,    \* whether the call begun last began while another one ran
    calls,      \* the number of calls begun by procs
    budgets     \* the budgets collection: a sequence of Budget

vars == <<records, transfers, today, nextId, procs, overlap, calls, budgets>>

\* ---- documents

Transaction(id, txType, amount, category, pay, transferID) ==
    [ id |-> id, type |-> txType, amount |-> amount, category |-> category,
      usetype |-> pay.usetype, bankname |-> pay.bankname,
      creditcardname |-> pay.creditcardname, transfer_id |-> transferID ]

\* updatedAt is "now" when it equals the current millisecond, else "past"
DailyRecord(lineID, date, incomes, expenses, totalIncome, totalExpense) ==
    [ lineid |-> lineID, date |-> date, incomes |-> incomes,
      expenses |-> expenses, totalIncome |-> totalIncome,
      totalExpense |-> totalExpense, updatedAt |-> "now" ]

TransactionData(txType, amount, category, pay) ==
    [ type |-> txType, amount |-> amount, category |-> category, pay |-> pay ]

RECURSIVE SumAmounts(_)
SumAmounts(list) ==
    IF list = <<>> THEN 0 ELSE list[1].amount + SumAmounts(Tail(list))

\* ---- the storage driver: FindOne, InsertOne, UpdateOne

\* index of the first document of (lineid, date), 0 for ErrNoDocuments
FindOne(recs, lineID, date) ==
    LET S == { i \in 1..Len(recs) :
                 recs[i].lineid = lineID /\ recs[i].date = date }
    IN  IF S = {} THEN 0 ELSE CHOOSE i \in S : \A j \in S : i <= j

InsertOne(recs, doc) == Append(recs, doc)

\* UpdateOne on the document at index i (0: nothing matched), which becomes
\* doc with updatedAt set to time.Now().  ModifiedCount is 1 only when the
\* stored document changes.
UpdateOne(recs, i, doc) ==
    IF i = 0
    THEN [ recs |-> recs, ModifiedCount |-> 0 ]
    ELSE LET new == [doc EXCEPT !.updatedAt = "now"]
         IN  [ recs |-> [recs EXCEPT ![i] = new],
               ModifiedCount |-> IF new = recs[i] THEN 0 ELSE 1 ]

\* ---- SaveTransaction, saveTransactionWithTransferID

\* a new daily record that puts every first transaction in incomes
NewDailyRecordAsIncome(lineID, date, newTx) ==
    DailyRecord(lineID, date, <<newTx>>, <<>>, newTx.amount, 0)

\* the new daily record of the ErrNoDocuments branch
NewDailyRecord(lineID, date, newTx) ==
    IF newTx.type = 1
    THEN DailyRecord(lineID, date, <<newTx>>, <<>>, newTx.amount, 0)
    ELSE DailyRecord(lineID, date, <<>>, <<newTx>>, 0, newTx.amount)

\* the update of the existing record: $push and $inc in one UpdateOne
PushTransaction(recs, lineID, date, newTx) ==
    LET i == FindOne(recs, lineID, date)
    IN  IF i = 0 THEN recs
        ELSE IF newTx.type = 1
        THEN UpdateOne(recs, i,
                [recs[i] EXCEPT !.incomes = Append(@, newTx),
                                !.totalIncome = @ + newTx.amount]).recs
        ELSE UpdateOne(recs, i,
                [recs[i] EXCEPT !.expenses = Append(@, newTx),
                                !.totalExpense = @ + newTx.amount]).recs

saveTransactionWithTransferID(recs, lineID, date, id, tx, transferID) ==
    LET txType == IF tx.type = "income" THEN 1 ELSE -1
        newTx  == Transaction(id, txType, tx.amount, tx.category, tx.pay,
                              transferID)
    IN  IF FindOne(recs, lineID, date) = 0
        THEN InsertOne(recs, NewDailyRecord(lineID, date, newTx))
        ELSE PushTransaction(recs, lineID, date, newTx)

SaveTransaction(recs, lineID, date, id, tx) ==
    LET txType == IF tx.type = "income" THEN 1 ELSE -1
        newTx  == Transaction(id, txType, tx.amount, tx.category, tx.pay, 0)
    IN  IF FindOne(recs, lineID, date) = 0
        THEN InsertOne(recs, NewDailyRecord(lineID, date, newTx))
        ELSE PushTransaction(recs, lineID, date, newTx)

\* ---- recalculateTotals

\* the FindOne of recalculateTotals and its two summing loops
ReadSums(recs, lineID, date) ==
    LET i == FindOne(recs, lineID, date)
    IN  IF i = 0
        THEN [ err |-> "ErrNoDocuments", totalIncome |-> 0, totalExpense |-> 0 ]
        ELSE [ err |-> "nil",
               totalIncome |-> SumAmounts(recs[i].incomes),
               totalExpense |-> SumAmounts(recs[i].expenses) ]

\* the UpdateOne of recalculateTotals: $set of the two totals
WriteTotals(recs, lineID, date, totalIncome, totalExpense) ==
    LET i == FindOne(recs, lineID, date)
    IN  IF i = 0 THEN recs
        ELSE UpdateOne(recs, i,
                [recs[i] EXCEPT !.totalIncome = totalIncome,
                                !.totalExpense = totalExpense]).recs

\* a recalculation that finds the document and writes back the cached
\* totals it found
recalculateTotalsStale(recs, lineID, date) ==
    LET i == FindOne(recs, lineID, date)
    IN  IF i = 0
        THEN [ recs |-> recs, err |-> "ErrNoDocuments" ]
        ELSE [ recs |-> UpdateOne(recs, i, recs[i]).recs, err |-> "nil" ]

recalculateTotals(recs, lineID, date) ==
    LET sums == ReadSums(recs, lineID, date)
    IN  IF sums.err # "nil"
        THEN [ recs |-> recs, err |-> sums.err ]
        ELSE [ recs |-> WriteTotals(recs, lineID, date, sums.totalIncome,
                                    sums.totalExpense),
               err |-> "nil" ]

\* ---- DeleteTransaction

\* $pull {_id: id}
PullID(list, id) == SelectSeq(list, LAMBDA tx : tx.id # id)

\* the $pull with a filter on lineid alone
PullFromAnyDate(recs, lineID, date, field, id) ==
    LET S == { i \in 1..Len(recs) :
                 /\ recs[i].lineid = lineID
                 /\ \E k \in 1..Len(recs[i][field]) :
                       recs[i][field][k].id = id }
        i == IF S = {} THEN 0 ELSE CHOOSE i \in S : \A j \in S : i <= j
    IN  IF i = 0 THEN UpdateOne(recs, 0, <<>>)
        ELSE UpdateOne(recs, i, [recs[i] EXCEPT ![field] = PullID(@, id)])

\* UpdateOne(filter, updateIncome) and UpdateOne(filter, updateExpense)
PullFrom(recs, lineID, date, field, id) ==
    LET i == FindOne(recs, lineID, date)
    IN  IF i = 0 THEN UpdateOne(recs, 0, <<>>)
        ELSE UpdateOne(recs, i, [recs[i] EXCEPT ![field] = PullID(@, id)])

DeleteTransaction(recs, lineID, date, id) ==
    LET r1 == PullFrom(recs, lineID, date, "incomes", id)
        r2 == IF r1.ModifiedCount = 0
              THEN PullFrom(r1.recs, lineID, date, "expenses", id).recs
              ELSE r1.recs
    IN  recalculateTotals(r2, lineID, date)

\* ---- UpdateTransactionAmount, UpdateTransactionPayment

HasID(list, id) == \E k \in 1..Len(list) : list[k].id = id

\* index of the first document of (lineid, date) whose list `field` holds
\* an element with _id = id; 0 when there is none
FindOneElem(recs, lineID, date, field, id) ==
    LET S == { i \in 1..Len(recs) :
                 /\ recs[i].lineid = lineID
                 /\ recs[i].date = date
                 /\ HasID(recs[i][field], id) }
    IN  IF S = {} THEN 0 ELSE CHOOSE i \in S : \A j \in S : i <= j

\* the positional operator $: the first element with _id = id
Positional(list, id) ==
    CHOOSE k \in 1..Len(list) :
        list[k].id = id /\ \A j \in 1..(k - 1) : list[j].id # id

SetAmount(list, id, amount) ==
    [list EXCEPT ![Positional(list, id)].amount = amount]

SetPayment(list, id, pay) ==
    [list EXCEPT ![Positional(list, id)] =
        [@ EXCEPT !.usetype = pay.usetype, !.bankname = pay.bankname,
                  !.creditcardname = pay.creditcardname]]

\* UpdateOne with filter {lineid, date, <field>._id} and $set <field>.$.amount
SetAmountIn(recs, lineID, date, field, id, amount) ==
    LET i == FindOneElem(recs, lineID, date, field, id)
    IN  IF i = 0 THEN UpdateOne(recs, 0, <<>>)
        ELSE UpdateOne(recs, i,
                [recs[i] EXCEPT ![field] = SetAmount(@, id, amount)])

\* UpdateOne with filter {lineid, date, <field>._id} and $set of the
\* payment fields of <field>.$
SetPaymentIn(recs, lineID, date, field, id, pay) ==
    LET i == FindOneElem(recs, lineID, date, field, id)
    IN  IF i = 0 THEN UpdateOne(recs, 0, <<>>)
        ELSE UpdateOne(recs, i,
                [recs[i] EXCEPT ![field] = SetPayment(@, id, pay)])

UpdateTransactionAmount(recs, lineID, date, id, amount) ==
    LET r1 == SetAmountIn(recs, lineID, date, "expenses", id, amount)
        r2 == IF r1.ModifiedCount = 0
              THEN SetAmountIn(r1.recs, lineID, date, "incomes", id, amount).recs
              ELSE r1.recs
    IN  recalculateTotals(r2, lineID, date)

\* the error GetTransactionByID returns
GetTransactionByID(recs, lineID, date, id) ==
    LET i == FindOne(recs, lineID, date)
    IN  IF i = 0 THEN "ErrNoDocuments"
        ELSE IF HasID(recs[i].expenses, id) \/ HasID(recs[i].incomes, id)
        THEN "nil"
        ELSE "transaction not found"

UpdateTransactionPayment(recs, lineID, date, id, pay) ==
    LET r1 == SetPaymentIn(recs, lineID, date, "expenses", id, pay)
        r2 == IF r1.ModifiedCount = 0
              THEN SetPaymentIn(r1.recs, lineID, date, "incomes", id, pay).recs
              ELSE r1.recs
    IN  [ recs |-> r2, err |-> GetTransactionByID(r2, lineID, date, id) ]

\* ---- SaveTransfer, DeleteTransfer

TransferEntry(amount, pay) == [ amount |-> amount, pay |-> pay ]

TransferRecord(id, lineID, date, from, to, totalAmount) ==
    [ id |-> id, lineid |-> lineID, date |-> date, from |-> from, to |-> to,
      total_amount |-> totalAmount ]

\* the loop with the Category of the generated transactions left empty
RECURSIVE SaveLegsNoCategory(_, _, _, _, _, _, _)
SaveLegsNoCategory(recs, lineID, date, id, entries, txType, transferID) ==
    IF entries = <<>> THEN recs
    ELSE SaveLegsNoCategory(
            saveTransactionWithTransferID(recs, lineID, date, id,
                TransactionData(txType, entries[1].amount, "", entries[1].pay),
                transferID),
            lineID, date, id + 1, Tail(entries), txType, transferID)

\* one loop of SaveTransfer over the entries of one side; the k-th entry
\* gets ObjectID id + k - 1
RECURSIVE SaveLegs(_, _, _, _, _, _, _)
SaveLegs(recs, lineID, date, id, entries, txType, transferID) ==
    IF entries = <<>> THEN recs
    ELSE SaveLegs(
            saveTransactionWithTransferID(recs, lineID, date, id,
                TransactionData(txType, entries[1].amount, TransferCategory,
                                entries[1].pay),
                transferID),
            lineID, date, id + 1, Tail(entries), txType, transferID)

\* a SaveTransfer that saves the from entries as incomes as well
SaveTransferAllIncomes(recs, trs, lineID, date, id, transfer) ==
    LET totalAmount == SumAmounts(transfer.from)
        transferRecord == TransferRecord(id, lineID, date, transfer.from,
                                         transfer.to, totalAmount)
        n  == Len(transfer.from)
        m  == Len(transfer.to)
        r1 == SaveLegs(recs, lineID, date, id + 1, transfer.from, "income", id)
        r2 == SaveLegs(r1, lineID, date, id + 1 + n, transfer.to, "income", id)
    IN  [ recs |-> r2,
          transfers |-> Append(trs, transferRecord),
          transferID |-> id,
          txIDs |-> [k \in 1..(n + m) |-> id + k],
          err |-> "nil" ]

\* the transfer record gets ObjectID id, the legs the ids that follow
SaveTransfer(recs, trs, lineID, date, id, transfer) ==
    LET totalAmount == SumAmounts(transfer.from)
        transferRecord == TransferRecord(id, lineID, date, transfer.from,
                                         transfer.to, totalAmount)
        n  == Len(transfer.from)
        m  == Len(transfer.to)
        r1 == SaveLegs(recs, lineID, date, id + 1, transfer.from, "expense", id)
        r2 == SaveLegs(r1, lineID, date, id + 1 + n, transfer.to, "income", id)
    IN  [ recs |-> r2,
          transfers |-> Append(trs, transferRecord),
          transferID |-> id,
          txIDs |-> [k \in 1..(n + m) |-> id + k],
          err |-> "nil" ]

\* one loop of SaveTransfer when the storage calls of the ObjectIDs in
\* failing return an error: the error is logged and the loop continues
RECURSIVE SaveLegsFailing(_, _, _, _, _, _, _, _)
SaveLegsFailing(recs, lineID, date, id, entries, txType, transferID, failing) ==
    IF entries = <<>> THEN [ recs |-> recs, txIDs |-> <<>> ]
    ELSE IF id \in failing
    THEN SaveLegsFailing(recs, lineID, date, id + 1, Tail(entries), txType,
                         transferID, failing)
    ELSE LET rest == SaveLegsFailing(
                        saveTransactionWithTransferID(recs, lineID, date, id,
                            TransactionData(txType, entries[1].amount,
                                            TransferCategory, entries[1].pay),
                            transferID),
                        lineID, date, id + 1, Tail(entries), txType,
                        transferID, failing)
         IN  [ recs |-> rest.recs, txIDs |-> <<id>> \o rest.txIDs ]

\* SaveTransfer when the storage calls of the ObjectIDs in failing return an
\* error: id is the InsertOne of the transfer record, the ids that follow
\* are the writes of the generated transactions
SaveTransferFailing(recs, trs, lineID, date, id, transfer, failing) ==
    LET totalAmount == SumAmounts(transfer.from)
        transferRecord == TransferRecord(id, lineID, date, transfer.from,
                                         transfer.to, totalAmount)
        n  == Len(transfer.from)
        r1 == SaveLegsFailing(recs, lineID, date, id + 1, transfer.from,
                              "expense", id, failing)
        r2 == SaveLegsFailing(r1.recs, lineID, date, id + 1 + n, transfer.to,
                              "income", id, failing)
    IN  IF id \in failing
        THEN [ recs |-> recs, transfers |-> trs, transferID |-> 0,
               txIDs |-> <<>>, err |-> "failed to save transfer" ]
        ELSE [ recs |-> r2.recs,
               transfers |-> Append(trs, transferRecord),
               transferID |-> id,
               txIDs |-> r1.txIDs \o r2.txIDs,
               err |-> "nil" ]

\* $pull {transfer_id: transferID}
PullTransferID(list, transferID) ==
    SelectSeq(list, LAMBDA tx : tx.transfer_id # transferID)

\* DeleteOne {_id: transferID} on the transfers collection
DeleteOneTransfer(trs, transferID) ==
    SelectSeq(trs, LAMBDA t : t.id # transferID)

\* a DeleteTransfer that pulls the legs from incomes only
DeleteTransferIncomesOnly(recs, trs, lineID, date, transferID) ==
    LET i  == FindOne(recs, lineID, date)
        r1 == IF i = 0 THEN recs
              ELSE UpdateOne(recs, i,
                      [recs[i] EXCEPT
                         !.incomes = PullTransferID(@, transferID)]).recs
        rc == recalculateTotals(r1, lineID, date)
    IN  [ recs |-> rc.recs,
          transfers |-> DeleteOneTransfer(trs, transferID),
          err |-> rc.err ]

DeleteTransfer(recs, trs, lineID, date, transferID) ==
    LET i  == FindOne(recs, lineID, date)
        r1 == IF i = 0 THEN recs
              ELSE UpdateOne(recs, i,
                      [recs[i] EXCEPT
                         !.incomes = PullTransferID(@, transferID)]).recs
        r2 == IF i = 0 THEN r1
              ELSE UpdateOne(r1, i,
                      [r1[i] EXCEPT
                         !.expenses = PullTransferID(@, transferID)]).recs
        rc == recalculateTotals(r2, lineID, date)
    IN  [ recs |-> rc.recs,
          transfers |-> DeleteOneTransfer(trs, transferID),
          err |-> rc.err ]

\* ---- GetBalanceSummary, GetBalanceByPaymentType

\* Find {lineid: lineID}: the user's documents, in cursor order
Find(recs, lineID) == SelectSeq(recs, LAMBDA r : r.lineid = lineID)

\* the loop without its `continue` for the transfer category
SumNotSkippingTransfers(list) == SumAmounts(list)

\* the running sum of one `for _, tx := range list` loop that skips the
\* transfer category
SumSkippingTransfers(list) ==
    SumAmounts(SelectSeq(list, LAMBDA tx : tx.category # TransferCategory))

RECURSIVE SummaryLoop(_, _, _)
SummaryLoop(docs, date, acc) ==
    IF docs = <<>> THEN acc
    ELSE LET record == docs[1]
             inc == SumSkippingTransfers(record.incomes)
             exp == SumSkippingTransfers(record.expenses)
         IN  SummaryLoop(Tail(docs), date,
                [ totalIncome  |-> acc.totalIncome + inc,
                  totalExpense |-> acc.totalExpense + exp,
                  todayIncome  |-> acc.todayIncome
                                   + (IF record.date = date THEN inc ELSE 0),
                  todayExpense |-> acc.todayExpense
                                   + (IF record.date = date THEN exp ELSE 0) ])

GetBalanceSummary(recs, lineID, date) ==
    LET acc == SummaryLoop(Find(recs, lineID), date,
                  [ totalIncome |-> 0, totalExpense |-> 0,
                    todayIncome |-> 0, todayExpense |-> 0 ])
    IN  [ totalIncome  |-> acc.totalIncome,
          totalExpense |-> acc.totalExpense,
          balance      |-> acc.totalIncome - acc.totalExpense,
          todayIncome  |-> acc.todayIncome,
          todayExpense |-> acc.todayExpense,
          todayBalance |-> acc.todayIncome - acc.todayExpense ]

\* fmt.Sprintf("%d:%s:%s", tx.UseType, tx.BankName, tx.CreditCardName)
PaymentKey(usetype, bankname, creditcardname) ==
    ToString(usetype) \o ":" \o bankname \o ":" \o creditcardname

\* every transaction the cursor visits: per document incomes, then expenses
RECURSIVE AllTx(_)
AllTx(docs) ==
    IF docs = <<>> THEN <<>>
    ELSE docs[1].incomes \o docs[1].expenses \o AllTx(Tail(docs))

\* the loop leaving the transactions of the transfer category out
RECURSIVE BalanceLoopSkippingTransfers(_, _)
BalanceLoopSkippingTransfers(txs, balanceMap) ==
    IF txs = <<>> THEN balanceMap
    ELSE LET tx  == txs[1]
             key == PaymentKey(tx.usetype, tx.bankname, tx.creditcardname)
             m1  == IF key \in DOMAIN balanceMap THEN balanceMap
                    ELSE balanceMap @@
                         (key :> [ usetype |-> tx.usetype,
                                   bankname |-> tx.bankname,
                                   creditcardname |-> tx.creditcardname,
                                   totalIncome |-> 0, totalExpense |-> 0,
                                   balance |-> 0 ])
             m2  == [m1 EXCEPT
                       ![key].balance = @ + tx.amount * tx.type,
                       ![key].totalIncome =
                           IF tx.type = 1 THEN @ + tx.amount ELSE @,
                       ![key].totalExpense =
                           IF tx.type = 1 THEN @ ELSE @ + tx.amount]
         IN  IF tx.category = TransferCategory
             THEN BalanceLoopSkippingTransfers(Tail(txs), balanceMap)
             ELSE BalanceLoopSkippingTransfers(Tail(txs), m2)

RECURSIVE BalanceLoop(_, _)
BalanceLoop(txs, balanceMap) ==
    IF txs = <<>> THEN balanceMap
    ELSE LET tx  == txs[1]
             key == PaymentKey(tx.usetype, tx.bankname, tx.creditcardname)
             m1  == IF key \in DOMAIN balanceMap THEN balanceMap
                    ELSE balanceMap @@
                         (key :> [ usetype |-> tx.usetype,
                                   bankname |-> tx.bankname,
                                   creditcardname |-> tx.creditcardname,
                                   totalIncome |-> 0, totalExpense |-> 0,
                                   balance |-> 0 ])
             m2  == [m1 EXCEPT
                       ![key].balance = @ + tx.amount * tx.type,
                       ![key].totalIncome =
                           IF tx.type = 1 THEN @ + tx.amount ELSE @,
                       ![key].totalExpense =
                           IF tx.type = 1 THEN @ ELSE @ + tx.amount]
         IN  BalanceLoop(Tail(txs), m2)

\* the result as the map key -> PaymentBalance (the slice is in map order)
GetBalanceByPaymentType(recs, lineID) ==
    BalanceLoop(AllTx(Find(recs, lineID)), <<>>)

\* ---- SearchTransactions, SearchByDateRange

\* the keywords searched for, and strings.ToLower and strings.Contains on
\* them and on the categories of the model
Keywords == {"", "food", "FOOD", "oo", "transfer", "rent"}

ToLower(str) == IF str = "FOOD" THEN "food" ELSE str

Contains(str, substr) ==
    \/ substr = ""
    \/ substr = str
    \/ substr = "oo" /\ str = "food"

\* of description, category and custname the model keeps the category
matchesKeyword(tx, keyword) ==
    Contains(ToLower(tx.category), ToLower(keyword))

SearchResult(tx, date) == [ transaction |-> tx, date |-> date ]

\* the documents in the order of the cursor: sort {date: -1}
RECURSIVE SortByDateDesc(_)
SortByDateDesc(recs) ==
    IF recs = <<>> THEN <<>>
    ELSE LET i == CHOOSE i \in 1..Len(recs) :
                     /\ \A j \in 1..Len(recs) : recs[j].date <= recs[i].date
                     /\ \A j \in 1..(i - 1) : recs[j].date < recs[i].date
         IN  <<recs[i]>> \o SortByDateDesc(SubSeq(recs, 1, i - 1)
                                            \o SubSeq(recs, i + 1, Len(recs)))

\* one of the two loops over the lists of a record: append the matches,
\* break when len(results) >= limit after an append
RECURSIVE SearchList(_, _, _, _, _)
SearchList(list, date, keyword, limit, results) ==
    IF list = <<>> THEN results
    ELSE IF matchesKeyword(list[1], keyword)
    THEN LET appended == Append(results, SearchResult(list[1], date))
         IN  IF Len(appended) >= limit THEN appended
             ELSE SearchList(Tail(list), date, keyword, limit, appended)
    ELSE SearchList(Tail(list), date, keyword, limit, results)

\* the cursor loop: incomes, then expenses, then the test of the limit
RECURSIVE SearchCursor(_, _, _, _)
SearchCursor(cursor, keyword, limit, results) ==
    IF cursor = <<>> THEN results
    ELSE LET record == cursor[1]
             r1 == SearchList(record.incomes, record.date, keyword, limit,
                              results)
             r2 == SearchList(record.expenses, record.date, keyword, limit,
                              r1)
         IN  IF Len(r2) >= limit THEN r2
             ELSE SearchCursor(Tail(cursor), keyword, limit, r2)

SearchTransactions(recs, lineID, keyword, limit) ==
    LET lim    == IF limit <= 0 THEN DefaultSearchLimit ELSE limit
        cursor == SortByDateDesc(
                     SelectSeq(recs, LAMBDA r :
                        /\ r.lineid = lineID
                        /\ \E k \in 1..Len(r.incomes \o r.expenses) :
                              matchesKeyword((r.incomes \o r.expenses)[k],
                                             keyword)))
    IN  SearchCursor(cursor, keyword, lim, <<>>)

\* the cursor loop of SearchByDateRange: all incomes, all expenses, then
\* the test of the limit
RECURSIVE RangeCursor(_, _, _)
RangeCursor(cursor, limit, results) ==
    IF cursor = <<>> THEN results
    ELSE LET record == cursor[1]
             r2 == results
                   \o [k \in 1..Len(record.incomes) |->
                         SearchResult(record.incomes[k], record.date)]
                   \o [k \in 1..Len(record.expenses) |->
                         SearchResult(record.expenses[k], record.date)]
         IN  IF Len(r2) >= limit THEN r2
             ELSE RangeCursor(Tail(cursor), limit, r2)

SearchByDateRange(recs, lineID, startDate, endDate, limit) ==
    LET lim    == IF limit <= 0 THEN DefaultRangeLimit ELSE limit
        cursor == SortByDateDesc(
                     SelectSeq(recs, LAMBDA r :
                        /\ r.lineid = lineID
                        /\ r.date >= startDate
                        /\ r.date <= endDate))
    IN  RangeCursor(cursor, lim, <<>>)

\* ---- SetBudget, GetBudget, DeleteBudget

Budget(lineID, category, amount) ==
    [ lineid |-> lineID, category |-> category, amount |-> amount ]

\* FindOne {lineid, category} on the budgets collection: index, 0 for none
FindBudget(buds, lineID, category) ==
    LET S == { i \in 1..Len(buds) :
                 buds[i].lineid = lineID /\ buds[i].category = category }
    IN  IF S = {} THEN 0 ELSE CHOOSE i \in S : \A j \in S : i <= j

\* an InsertOne in the place of the upsert
SetBudgetInsert(buds, lineID, category, amount) ==
    Append(buds, Budget(lineID, category, amount))

\* UpdateOne with upsert: $set amount, $setOnInsert lineid and category
SetBudget(buds, lineID, category, amount) ==
    LET i == FindBudget(buds, lineID, category)
    IN  IF i = 0 THEN Append(buds, Budget(lineID, category, amount))
        ELSE [buds EXCEPT ![i].amount = amount]

\* the budget of the category; found is FALSE for the nil of ErrNoDocuments
GetBudget(buds, lineID, category) ==
    LET i == FindBudget(buds, lineID, category)
    IN  IF i = 0 THEN [ found |-> FALSE, amount |-> 0 ]
        ELSE [ found |-> TRUE, amount |-> buds[i].amount ]

\* DeleteOne {lineid, category}
DeleteBudget(buds, lineID, category) ==
    LET i == FindBudget(buds, lineID, category)
    IN  IF i = 0 THEN buds
        ELSE SubSeq(buds, 1, i - 1) \o SubSeq(buds, i + 1, Len(buds))

\* ---- GetMonthlySpendingByCategory, CheckBudgetAlert

MonthOf(date) == (date - 1) \div DaysPerMonth

\* the loop over record.Expenses: spendingByCategory[category] += tx.Amount
RECURSIVE SpendingLoop(_, _)
SpendingLoop(expenses, spendingByCategory) ==
    IF expenses = <<>> THEN spendingByCategory
    ELSE LET tx       == expenses[1]
             category == IF tx.category = "" THEN OtherCategory
                         ELSE tx.category
         IN  SpendingLoop(Tail(expenses),
                IF category = TransferCategory THEN spendingByCategory
                ELSE [spendingByCategory EXCEPT ![category] = @ + tx.amount])

\* the cursor loop over the records of the user
RECURSIVE MonthLoop(_, _)
MonthLoop(recs, spendingByCategory) ==
    IF recs = <<>> THEN spendingByCategory
    ELSE MonthLoop(Tail(recs),
                   SpendingLoop(recs[1].expenses, spendingByCategory))

\* a key that is not in the Go map reads as 0
GetMonthlySpendingByCategory(recs, lineID, date) ==
    MonthLoop(SelectSeq(recs, LAMBDA r : /\ r.lineid = lineID
                                         /\ MonthOf(r.date) = MonthOf(date)),
              [c \in SpendingCategories |-> 0])

\* a CheckBudgetAlert that compares the spending so far, without newAmount
CheckBudgetAlertNoProjection(recs, buds, lineID, date, category, newAmount) ==
    LET budget == GetBudget(buds, lineID, category)
    IN  IF ~ budget.found THEN "none"
        ELSE LET spending      == GetMonthlySpendingByCategory(recs, lineID,
                                                                date)
                 currentSpent  == spending[category]
                 totalAfterNew == currentSpent
             IN  IF totalAfterNew > budget.amount THEN "over"
                 ELSE IF budget.amount > 0
                         /\ totalAfterNew * 100 >= 80 * budget.amount
                 THEN "warning"
                 ELSE "none"

\* "over", "warning", or "none" for (false, "").  percentage >= 80 is
\* totalAfterNew / budget.Amount * 100 >= 80; with a budget of 0 the
\* percentage is NaN or -Inf when totalAfterNew <= 0 and the test is false
CheckBudgetAlert(recs, buds, lineID, date, category, newAmount) ==
    LET budget == GetBudget(buds, lineID, category)
    IN  IF ~ budget.found THEN "none"
        ELSE LET spending      == GetMonthlySpendingByCategory(recs, lineID,
                                                                date)
                 currentSpent  == spending[category]
                 totalAfterNew == currentSpent + newAmount
             IN  IF totalAfterNew > budget.amount THEN "over"
                 ELSE IF budget.amount > 0
                         /\ totalAfterNew * 100 >= 80 * budget.amount
                 THEN "warning"
                 ELSE "none"

\* ---- GetLastTransaction

\* the last expense of today's record, else its last income
GetLastTransaction(recs, lineID, date) ==
    LET i == FindOne(recs, lineID, date)
    IN  IF i = 0 THEN [ found |-> FALSE, id |-> 0 ]
        ELSE IF recs[i].expenses # <<>>
        THEN [ found |-> TRUE,
               id |-> recs[i].expenses[Len(recs[i].expenses)].id ]
        ELSE IF recs[i].incomes # <<>>
        THEN [ found |-> TRUE,
               id |-> recs[i].incomes[Len(recs[i].incomes)].id ]
        ELSE [ found |-> FALSE, id |-> 0 ]

\* ---- handleTextMessage (handlers/line_webhook.go)

\* the classifier's reply after cleanJSONResponse.  kind is "text" for a
\* reply that is no JSON, "array" for the old format (an array of
\* transactions), "object" for an AIResponse
AIResponse(kind, action, transactions, transfer, updateField, updateAmount, updatePay, budget) ==
    [ kind |-> kind, action |-> action, transactions |-> transactions,
      transfer |-> transfer, update_field |-> updateField,
      update_amount |-> updateAmount, update_pay |-> updatePay,
      budget |-> budget ]

\* the loop of pushTransactionFlexMultiple (pushTransactionFlex for one
\* transaction): SaveTransaction of every transaction, ObjectIDs from id on
RECURSIVE pushTransactionFlexMultiple(_, _, _, _, _)
pushTransactionFlexMultiple(recs, lineID, date, id, transactions) ==
    IF transactions = <<>> THEN recs
    ELSE pushTransactionFlexMultiple(
            SaveTransaction(recs, lineID, date, id, transactions[1]),
            lineID, date, id + 1, Tail(transactions))

\* case "new": the filter tx.Amount > 0
ValidTransactions(transactions) ==
    SelectSeq(transactions, LAMBDA tx : tx.amount > 0)

\* the alerts pushed by the loop over validTransactions
RECURSIVE BudgetAlerts(_, _, _, _, _)
BudgetAlerts(recs, buds, lineID, date, validTransactions) ==
    IF validTransactions = <<>> THEN <<>>
    ELSE LET tx    == validTransactions[1]
             alert == IF tx.type = "expense" /\ tx.category # ""
                      THEN CheckBudgetAlert(recs, buds, lineID, date,
                                            tx.category, tx.amount)
                      ELSE "none"
             rest  == BudgetAlerts(recs, buds, lineID, date,
                                   Tail(validTransactions))
         IN  IF alert = "none" THEN rest
             ELSE << [ category |-> tx.category, amount |-> tx.amount,
                       alert |-> alert ] >> \o rest

\* the stores after the message is handled, the next free ObjectID and the
\* budget alerts pushed to the user
handleTextMessage(recs, trs, buds, lineID, date, id, response) ==
    LET lastTx == GetLastTransaction(recs, lineID, date)
        same   == [ recs |-> recs, transfers |-> trs, budgets |-> buds,
                    nextId |-> id, alerts |-> <<>> ]
        saved(transactions) ==
            [ same EXCEPT
                !.recs = pushTransactionFlexMultiple(recs, lineID, date, id,
                                                     transactions),
                !.nextId = id + Len(transactions) ]
        validTransactions == ValidTransactions(response.transactions)
    IN  IF response.kind = "text" THEN same
        ELSE IF response.kind = "array"
        THEN saved(response.transactions)
        ELSE IF response.action = "new"
        THEN LET r == saved(validTransactions)
             IN  [ r EXCEPT !.alerts = BudgetAlerts(r.recs, buds, lineID,
                                                    date, validTransactions) ]
        ELSE IF response.action = "update"
        THEN IF ~ lastTx.found THEN same
             ELSE IF response.update_field = "amount"
             THEN [ same EXCEPT !.recs =
                      UpdateTransactionAmount(recs, lineID, date, lastTx.id,
                                              response.update_amount).recs ]
             ELSE IF response.update_field = "usetype"
             THEN [ same EXCEPT !.recs =
                      UpdateTransactionPayment(recs, lineID, date, lastTx.id,
                                               response.update_pay).recs ]
             ELSE same
        ELSE IF response.action = "transfer"
        THEN IF ~ response.transfer.present THEN same
             ELSE LET r == SaveTransfer(recs, trs, lineID, date, id,
                              [ from |-> response.transfer.from,
                                to |-> response.transfer.to ])
                  IN  [ same EXCEPT
                          !.recs = r.recs, !.transfers = r.transfers,
                          !.nextId = id + 1 + Len(response.transfer.from)
                                        + Len(response.transfer.to) ]
        ELSE IF response.action = "budget"
        THEN IF /\ response.budget.present
                /\ response.budget.category # ""
                /\ response.budget.amount > 0
             THEN [ same EXCEPT !.budgets =
                      SetBudget(buds, lineID, response.budget.category,
                                response.budget.amount) ]
             ELSE same
        ELSE IF response.action \in {"balance", "search", "analyze",
                                     "export", "chart", "chat"}
        THEN same
        ELSE saved(validTransactions)

\* ---- inputs

Ids == 1..MaxIds
\* a request that runs no call yet
IdleProc ==
    [ pc |-> "idle", op |-> "none", lineid |-> "", id |-> 0, queue |-> <<>>,
      transferID |-> 0, amount |-> 0, totalIncome |-> 0, totalExpense |-> 0,
      err |-> "nil" ]

LegLists ==
    UNION { [1..n -> [amount : Amounts, pay : PayMethods]] : n \in 0..MaxLegs }

Init ==
    /\ records = <<>>
    /\ transfers = <<>>
    /\ today = 1
    /\ nextId = 1
    /\ procs = [p \in Procs |-> IdleProc]
    /\ overlap = FALSE
    /\ calls = 0
    /\ budgets = <<>>

\* ---- the calls, one at a time

SaveEntry(u, tx) ==
    /\ nextId <= MaxIds
    /\ records' = SaveTransaction(records, u, today, nextId, tx)
    /\ nextId' = nextId + 1
    /\ UNCHANGED <<budgets, transfers, today, procs, overlap, calls>>

DeleteEntry(u, id) ==
    LET r == DeleteTransaction(records, u, today, id)
    IN  /\ records' = r.recs
        /\ UNCHANGED <<budgets, transfers, today, nextId, procs, overlap, calls>>

UpdateEntryAmount(u, id, amount) ==
    LET r == UpdateTransactionAmount(records, u, today, id, amount)
    IN  /\ records' = r.recs
        /\ UNCHANGED <<budgets, transfers, today, nextId, procs, overlap, calls>>

UpdateEntryPaymentMethod(u, id, pay) ==
    LET r == UpdateTransactionPayment(records, u, today, id, pay)
    IN  /\ records' = r.recs
        /\ UNCHANGED <<budgets, transfers, today, nextId, procs, overlap, calls>>

SaveTransferCall(u, from, to) ==
    LET r == SaveTransfer(records, transfers, u, today, nextId,
                          [from |-> from, to |-> to])
    IN  /\ nextId + Len(from) + Len(to) <= MaxIds
        /\ records' = r.recs
        /\ transfers' = r.transfers
        /\ nextId' = nextId + 1 + Len(from) + Len(to)
        /\ UNCHANGED <<budgets, today, procs, overlap, calls>>

DeleteTransferCall(u, transferID) ==
    LET r == DeleteTransfer(records, transfers, u, today, transferID)
    IN  /\ records' = r.recs
        /\ transfers' = r.transfers
        /\ UNCHANGED <<budgets, today, nextId, procs, overlap, calls>>

\* midnight passes
DayChange ==
    /\ today < MaxDay
    /\ today' = today + 1
    /\ records' = [i \in 1..Len(records) |->
                     [records[i] EXCEPT !.updatedAt = "past"]]
    /\ UNCHANGED <<budgets, transfers, nextId, procs, overlap, calls>>

\* a millisecond passes: no stored updatedAt equals time.Now() any more
Tick ==
    /\ \E i \in 1..Len(records) : records[i].updatedAt = "now"
    /\ records' = [i \in 1..Len(records) |->
                     [records[i] EXCEPT !.updatedAt = "past"]]
    /\ UNCHANGED <<budgets, transfers, today, nextId, procs, overlap, calls>>

Next ==
    \/ \E u \in Users, t \in TxTypes, a \in Amounts, c \in Categories,
          p \in PayMethods : SaveEntry(u, TransactionData(t, a, c, p))
    \/ \E u \in Users, id \in Ids : DeleteEntry(u, id)
    \/ \E u \in Users, id \in Ids, a \in Amounts : UpdateEntryAmount(u, id, a)
    \/ \E u \in Users, id \in Ids, p \in PayMethods :
          UpdateEntryPaymentMethod(u, id, p)
    \/ \E u \in Users, from \in LegLists, to \in LegLists :
          SaveTransferCall(u, from, to)
    \/ \E u \in Users, id \in Ids : DeleteTransferCall(u, id)
    \/ DayChange
    \/ Tick

Spec == Init /\ [][Next]_vars


\* ---- storage calls that can fail

\* the ObjectIDs a SaveTransfer of n + m entries draws from id on
TransferIds(id, from, to) == id..(id + Len(from) + Len(to))

SaveTransferFaultCall(u, from, to, failing) ==
    LET r == SaveTransferFailing(records, transfers, u, today, nextId,
                                 [from |-> from, to |-> to], failing)
    IN  /\ nextId + Len(from) + Len(to) <= MaxIds
        /\ failing \subseteq TransferIds(nextId, from, to)
        /\ records' = r.recs
        /\ transfers' = r.transfers
        /\ nextId' = nextId + 1 + Len(from) + Len(to)
        /\ UNCHANGED <<budgets, today, procs, overlap, calls>>

FaultNext ==
    \/ \E u \in Users, t \in TxTypes, a \in Amounts, c \in Categories,
          p \in PayMethods : SaveEntry(u, TransactionData(t, a, c, p))
    \/ \E u \in Users, from \in LegLists, to \in LegLists,
          failing \in SUBSET Ids : SaveTransferFaultCall(u, from, to, failing)
    \/ \E u \in Users, id \in Ids : DeleteTransferCall(u, id)
    \/ DayChange
    \/ Tick

FaultSpec == Init /\ [][FaultNext]_vars


\* ---- overlapping requests: one storage round trip per step

Active(p) == procs[p].pc \notin {"idle", "done"}

OthersActive(p) == \E q \in Procs \ {p} : Active(q)

\* the documents SaveTransfer's two loops are going to save
LegDocs(id, entries, txType, transferID) ==
    [k \in 1..Len(entries) |->
        Transaction(id + k - 1, txType, entries[k].amount, TransferCategory,
                    entries[k].pay, transferID)]

BeginSaveEntry(p, u, tx) ==
    /\ ~ Active(p)
    /\ calls < MaxCalls
    /\ nextId <= MaxConcIds
    /\ procs' = [procs EXCEPT ![p] =
          [IdleProc EXCEPT
              !.pc = "save_find", !.op = "saveEntry", !.lineid = u,
              !.id = nextId,
              !.queue = << Transaction(nextId,
                              IF tx.type = "income" THEN 1 ELSE -1,
                              tx.amount, tx.category, tx.pay, 0) >>]]
    /\ nextId' = nextId + 1
    /\ overlap' = OthersActive(p)
    /\ calls' = calls + 1
    /\ UNCHANGED <<budgets, records, transfers, today>>

\* SaveTransfer up to the InsertOne of the transfer record
BeginSaveTransfer(p, u, from, to) ==
    /\ ~ Active(p)
    /\ calls < MaxCalls
    /\ nextId + Len(from) + Len(to) <= MaxConcIds
    /\ transfers' = Append(transfers,
          TransferRecord(nextId, u, today, from, to, SumAmounts(from)))
    /\ procs' = [procs EXCEPT ![p] =
          [IdleProc EXCEPT
              !.pc = IF Len(from) + Len(to) = 0 THEN "done" ELSE "save_find",
              !.op = "saveTransfer", !.lineid = u, !.id = nextId,
              !.transferID = nextId,
              !.queue = LegDocs(nextId + 1, from, -1, nextId)
                        \o LegDocs(nextId + 1 + Len(from), to, 1, nextId)]]
    /\ nextId' = nextId + 1 + Len(from) + Len(to)
    /\ overlap' = OthersActive(p)
    /\ calls' = calls + 1
    /\ UNCHANGED <<budgets, records, today>>

\* the FindOne of SaveTransaction / saveTransactionWithTransferID
SaveFind(p) ==
    /\ procs[p].pc = "save_find"
    /\ procs' = [procs EXCEPT ![p].pc =
          IF FindOne(records, procs[p].lineid, today) = 0
          THEN "save_insert" ELSE "save_update"]
    /\ UNCHANGED <<budgets, records, transfers, today, nextId, overlap, calls>>

\* the transaction is stored: the next leg, or the call returns
Saved(p) ==
    [procs EXCEPT
        ![p].queue = Tail(@),
        ![p].pc = IF Tail(procs[p].queue) = <<>> THEN "done" ELSE "save_find"]

\* the InsertOne of the ErrNoDocuments branch
SaveInsert(p) ==
    /\ procs[p].pc = "save_insert"
    /\ records' = InsertOne(records,
          NewDailyRecord(procs[p].lineid, today, Head(procs[p].queue)))
    /\ procs' = Saved(p)
    /\ UNCHANGED <<budgets, transfers, today, nextId, overlap, calls>>

\* the UpdateOne with $push and $inc
SaveUpdate(p) ==
    /\ procs[p].pc = "save_update"
    /\ records' = PushTransaction(records, procs[p].lineid, today,
                                  Head(procs[p].queue))
    /\ procs' = Saved(p)
    /\ UNCHANGED <<budgets, transfers, today, nextId, overlap, calls>>

BeginDeleteEntry(p, u, id) ==
    /\ ~ Active(p)
    /\ calls < MaxCalls
    /\ procs' = [procs EXCEPT ![p] =
          [IdleProc EXCEPT !.pc = "del_incomes", !.op = "deleteEntry",
                           !.lineid = u, !.id = id]]
    /\ overlap' = OthersActive(p)
    /\ calls' = calls + 1
    /\ UNCHANGED <<budgets, records, transfers, today, nextId>>

DelIncomes(p) ==
    /\ procs[p].pc = "del_incomes"
    /\ LET r == PullFrom(records, procs[p].lineid, today, "incomes",
                         procs[p].id)
       IN  /\ records' = r.recs
           /\ procs' = [procs EXCEPT ![p].pc =
                 IF r.ModifiedCount = 0 THEN "del_expenses"
                 ELSE "recalc_find"]
    /\ UNCHANGED <<budgets, transfers, today, nextId, overlap, calls>>

DelExpenses(p) ==
    /\ procs[p].pc = "del_expenses"
    /\ records' = PullFrom(records, procs[p].lineid, today, "expenses",
                           procs[p].id).recs
    /\ procs' = [procs EXCEPT ![p].pc = "recalc_find"]
    /\ UNCHANGED <<budgets, transfers, today, nextId, overlap, calls>>

BeginUpdateEntryAmount(p, u, id, amount) ==
    /\ ~ Active(p)
    /\ calls < MaxCalls
    /\ procs' = [procs EXCEPT ![p] =
          [IdleProc EXCEPT !.pc = "upd_expenses", !.op = "updateEntryAmount",
                           !.lineid = u, !.id = id, !.amount = amount]]
    /\ overlap' = OthersActive(p)
    /\ calls' = calls + 1
    /\ UNCHANGED <<budgets, records, transfers, today, nextId>>

UpdExpenses(p) ==
    /\ procs[p].pc = "upd_expenses"
    /\ LET r == SetAmountIn(records, procs[p].lineid, today, "expenses",
                            procs[p].id, procs[p].amount)
       IN  /\ records' = r.recs
           /\ procs' = [procs EXCEPT ![p].pc =
                 IF r.ModifiedCount = 0 THEN "upd_incomes"
                 ELSE "recalc_find"]
    /\ UNCHANGED <<budgets, transfers, today, nextId, overlap, calls>>

UpdIncomes(p) ==
    /\ procs[p].pc = "upd_incomes"
    /\ records' = SetAmountIn(records, procs[p].lineid, today, "incomes",
                              procs[p].id, procs[p].amount).recs
    /\ procs' = [procs EXCEPT ![p].pc = "recalc_find"]
    /\ UNCHANGED <<budgets, transfers, today, nextId, overlap, calls>>

\* the FindOne of recalculateTotals and its summing loops
RecalcFind(p) ==
    /\ procs[p].pc = "recalc_find"
    /\ LET sums == ReadSums(records, procs[p].lineid, today)
       IN  procs' = [procs EXCEPT
              ![p].pc = IF sums.err = "nil" THEN "recalc_set" ELSE "done",
              ![p].err = sums.err,
              ![p].id = IF sums.err = "nil" THEN @ ELSE 0,
              ![p].amount = IF sums.err = "nil" THEN @ ELSE 0,
              ![p].totalIncome = sums.totalIncome,
              ![p].totalExpense = sums.totalExpense]
    /\ UNCHANGED <<budgets, records, transfers, today, nextId, overlap, calls>>

\* the UpdateOne of recalculateTotals
RecalcSet(p) ==
    /\ procs[p].pc = "recalc_set"
    /\ records' = WriteTotals(records, procs[p].lineid, today,
                              procs[p].totalIncome, procs[p].totalExpense)
    /\ procs' = [procs EXCEPT ![p].pc = "done",
                              ![p].id = 0, ![p].amount = 0,
                              ![p].totalIncome = 0, ![p].totalExpense = 0]
    /\ UNCHANGED <<budgets, transfers, today, nextId, overlap, calls>>

ConcNext ==
    \/ \E p \in Procs, u \in Users, t \in TxTypes, a \in Amounts,
          c \in Categories, m \in PayMethods :
          BeginSaveEntry(p, u, TransactionData(t, a, c, m))
    \/ \E p \in Procs, u \in Users, from \in LegLists, to \in LegLists :
          BeginSaveTransfer(p, u, from, to)
    \/ \E p \in Procs, u \in Users, id \in 1..MaxConcIds :
          BeginDeleteEntry(p, u, id)
    \/ \E p \in Procs, u \in Users, id \in 1..MaxConcIds, a \in Amounts :
          BeginUpdateEntryAmount(p, u, id, a)
    \/ \E p \in Procs : SaveFind(p)
    \/ \E p \in Procs : SaveInsert(p)
    \/ \E p \in Procs : SaveUpdate(p)
    \/ \E p \in Procs : DelIncomes(p)
    \/ \E p \in Procs : DelExpenses(p)
    \/ \E p \in Procs : UpdExpenses(p)
    \/ \E p \in Procs : UpdIncomes(p)
    \/ \E p \in Procs : RecalcFind(p)
    \/ \E p \in Procs : RecalcSet(p)
    \/ Tick

ConcSpec == Init /\ [][ConcNext]_vars

\* ---- two users on one database, the calls one at a time

SetBudgetCall(u, category, amount) ==
    /\ budgets' = SetBudget(budgets, u, category, amount)
    /\ UNCHANGED <<records, transfers, today, nextId, procs, overlap, calls>>

TenantNext ==
    \/ \E u \in Tenants, t \in TxTypes, a \in Amounts, c \in Categories,
          p \in PayMethods : SaveEntry(u, TransactionData(t, a, c, p))
    \/ \E u \in Tenants, id \in Ids : DeleteEntry(u, id)
    \/ \E u \in Tenants, from \in LegLists, to \in LegLists :
          SaveTransferCall(u, from, to)
    \/ \E u \in Tenants, id \in Ids : DeleteTransferCall(u, id)
    \/ \E u \in Tenants, c \in Categories :
          SetBudgetCall(u, c, MaxBudget)
    \/ Tick

TenantSpec == Init /\ [][TenantNext]_vars

\* ---- the budgets of two users

\* the categories budgets are set for
BudgetCategories == Categories \cup {OtherCategory}

DeleteBudgetCall(u, category) ==
    /\ budgets' = DeleteBudget(budgets, u, category)
    /\ UNCHANGED <<records, transfers, today, nextId, procs, overlap, calls>>

BudgetNext ==
    \/ \E u \in Tenants, c \in BudgetCategories, a \in BudgetAmounts :
          SetBudgetCall(u, c, a)
    \/ \E u \in Tenants, c \in BudgetCategories : DeleteBudgetCall(u, c)

BudgetSpec == Init /\ [][BudgetNext]_vars

\* ---- the dispatcher: one classifier response per step

\* amounts the classifier may report, the zero of a misread one included
AiAmounts == 0..MaxAmount
AiCategories == Categories
\* budget amounts the classifier may report
AiBudgetAmounts == {0, MaxBudget - 1, MaxBudget}
AiPayMethods == { p \in PayMethods : p.usetype = 0 }

AiTransactions ==
    { TransactionData(t, a, c, p) :
        t \in TxTypes, a \in AiAmounts, c \in AiCategories,
        p \in AiPayMethods }

Batches == UNION { [1..n -> AiTransactions] : n \in 0..MaxBatch }

NoTransfer == [ present |-> FALSE, from |-> <<>>, to |-> <<>> ]
NoBudget == [ present |-> FALSE, category |-> "", amount |-> 0 ]
NoPay == CHOOSE p \in AiPayMethods : TRUE

\* "unknown" stands for every action string that is not one of the switch
Responses ==
    { AIResponse("text", "", <<>>, NoTransfer, "", 0, NoPay, NoBudget) }
    \cup { AIResponse("array", "", txs, NoTransfer, "", 0, NoPay, NoBudget) :
             txs \in Batches }
    \cup { AIResponse("object", a, txs, NoTransfer, "", 0, NoPay, NoBudget) :
             a \in {"new", "unknown"}, txs \in Batches }
    \cup { AIResponse("object", "chat", txs, NoTransfer, "", 0, NoPay,
                      NoBudget) : txs \in { b \in Batches : Len(b) <= 1 } }
    \cup { AIResponse("object", "update", <<>>, NoTransfer, "amount", v,
                      NoPay, NoBudget) : v \in AiAmounts }
    \cup { AIResponse("object", "update", <<>>, NoTransfer, "usetype", 0,
                      p, NoBudget) : p \in PayMethods }
    \cup { AIResponse("object", "transfer", <<>>, t, "", 0, NoPay,
                      NoBudget) :
             t \in {NoTransfer} \cup
                   { [ present |-> TRUE, from |-> f, to |-> g ] :
                       f \in LegLists, g \in LegLists } }
    \cup { AIResponse("object", "budget", <<>>, NoTransfer, "", 0, NoPay, b) :
             b \in {NoBudget} \cup
                   { [ present |-> TRUE, category |-> c, amount |-> am ] :
                       c \in AiCategories, am \in AiBudgetAmounts } }

\* the stored updatedAt values a millisecond later: between two messages
\* the classifier is called, and ChatWithContext takes longer than that
Aged(recs) == [i \in 1..Len(recs) |-> [recs[i] EXCEPT !.updatedAt = "past"]]

\* an upper bound of the ObjectIDs the handler draws for the response
IdsDrawn(response) ==
    Len(response.transactions)
       + (IF response.transfer.present
          THEN 1 + Len(response.transfer.from) + Len(response.transfer.to)
          ELSE 0)

HandleTextMessage(u, response) ==
    LET r == handleTextMessage(records, transfers, budgets, u, today,
                               nextId, response)
    IN  /\ nextId + IdsDrawn(response) <= MaxIds + 1
        /\ records' = Aged(r.recs)
        /\ transfers' = r.transfers
        /\ budgets' = r.budgets
        /\ nextId' = r.nextId
        /\ UNCHANGED <<today, procs, overlap, calls>>

DispatchNext ==
    \/ \E u \in Users, response \in Responses : HandleTextMessage(u, response)
    \/ DayChange

DispatchSpec == Init /\ [][DispatchNext]_vars

\* ---- receipts and transfer slips

\* the payment method slip_save sets: UseType 2 with the bank of the slip
SlipPay == CHOOSE p \in PayMethods : p.usetype = 2
\* the amounts read from a slip
SlipAmounts == AiAmounts
\* the categories of the quick replies of slip_income and slip_expense (of
\* the expense list the reserved one and a spending category, of the income
\* list the last one)
SlipCategories(txType) ==
    IF txType = "income" THEN {OtherCategory}
    ELSE {TransferCategory} \cup Categories

\* the receipt branch: the transaction read from the image is saved as is
handleImageMessage(recs, lineID, date, id, transactionData) ==
    SaveTransaction(recs, lineID, date, id, transactionData)

\* case "slip_save": the stored slip with the type and the category of the
\* postback, saved by replyTransactionFlex
slipSave(recs, lineID, date, id, slipAmount, txType, category) ==
    SaveTransaction(recs, lineID, date, id,
                    TransactionData(txType, slipAmount, category, SlipPay))

HandleImageMessage(u, transactionData) ==
    /\ nextId <= MaxIds
    /\ records' = Aged(handleImageMessage(records, u, today, nextId,
                                          transactionData))
    /\ nextId' = nextId + 1
    /\ UNCHANGED <<budgets, transfers, today, procs, overlap, calls>>

HandlePostbackSlipSave(u, slipAmount, txType, category) ==
    /\ nextId <= MaxIds
    /\ category \in SlipCategories(txType)
    /\ records' = Aged(slipSave(records, u, today, nextId, slipAmount,
                                txType, category))
    /\ nextId' = nextId + 1
    /\ UNCHANGED <<budgets, transfers, today, procs, overlap, calls>>

\* the responses that save new entries or a transfer
IntakeResponses ==
    { response \in Responses :
        response.kind = "object" /\ response.action \in {"new", "transfer"} }

IntakeNext ==
    \/ \E u \in Users, response \in IntakeResponses :
          HandleTextMessage(u, response)
    \/ \E u \in Users, tx \in AiTransactions : HandleImageMessage(u, tx)
    \/ \E u \in Users, a \in SlipAmounts, t \in TxTypes,
          c \in SpendingCategories : HandlePostbackSlipSave(u, a, t, c)
    \/ DayChange

IntakeSpec == Init /\ [][IntakeNext]_vars

\* ---- helpers of the properties

\* the documents without their updatedAt timestamps
Ledger(recs) ==
    [i \in 1..Len(recs) |-> [recs[i] EXCEPT !.updatedAt = "past"]]

RECURSIVE SignedSum(_)
SignedSum(txs) ==
    IF txs = <<>> THEN 0
    ELSE txs[1].amount * txs[1].type + SignedSum(Tail(txs))

NonTransfer(txs) == SelectSeq(txs, LAMBDA tx : tx.category # TransferCategory)

\* the cached totals of the day record of (lineID, date); a day without a
\* record has no income and no expense
CachedTotals(recs, lineID, date) ==
    LET i == FindOne(recs, lineID, date)
    IN  IF i = 0 THEN <<0, 0>>
        ELSE <<recs[i].totalIncome, recs[i].totalExpense>>

NetOf(balanceMap, key) ==
    IF key \in DOMAIN balanceMap THEN balanceMap[key].balance ELSE 0

LegKey(leg) ==
    PaymentKey(leg.pay.usetype, leg.pay.bankname, leg.pay.creditcardname)

LegKeys(legs) == { LegKey(legs[k]) : k \in 1..Len(legs) }

\* the sum of the amounts of the legs paid with `key`
LegSum(legs, key) ==
    SumAmounts(SelectSeq(legs, LAMBDA leg : LegKey(leg) = key))

RECURSIVE SetSum(_, _)
SetSum(S, balanceMapDiff) ==
    IF S = {} THEN 0
    ELSE LET k == CHOOSE k \in S : TRUE
         IN  balanceMapDiff[k] + SetSum(S \ {k}, balanceMapDiff)

HasTransferID(recs, lineID, transferID) ==
    \E i \in 1..Len(recs) :
        /\ recs[i].lineid = lineID
        /\ \E k \in 1..Len(recs[i].incomes \o recs[i].expenses) :
              (recs[i].incomes \o recs[i].expenses)[k].transfer_id = transferID

HasEntry(recs, id) ==
    \E i \in 1..Len(recs) :
        HasID(recs[i].incomes, id) \/ HasID(recs[i].expenses, id)

TransferExists(trs, transferID) ==
    \E k \in 1..Len(trs) : trs[k].id = transferID

\* ---- C1
\* C1: after any sequence of completed saveEntry, deleteEntry,
\* updateEntryAmount, updateEntryPaymentMethod, saveTransfer and
\* deleteTransfer calls that do not overlap, every day record's cached
\* totalIncome is the sum of the amounts of its incomes and its cached
\* totalExpense the sum of the amounts of its expenses.
C1_TotalsEqualListSums ==
    \A i \in 1..Len(records) :
        /\ records[i].totalIncome = SumAmounts(records[i].incomes)
        /\ records[i].totalExpense = SumAmounts(records[i].expenses)

\* a day record that holds incomes and expenses after one of the entries
\* saved so far has been deleted again
C1_Witness ==
    /\ nextId - 1 > Len(AllTx(records)) + Len(transfers)
    /\ \E i \in 1..Len(records) :
          /\ records[i].incomes # <<>>
          /\ records[i].expenses # <<>>
          /\ records[i].totalIncome > 0
          /\ records[i].totalExpense > 0

\* ---- C2
\* C2: for every user, the balance GetBalanceSummary returns is its
\* totalIncome minus its totalExpense, and is the sum of amount * type over
\* the user's entries that are not of the transfer category.
C2_BalanceIdentity ==
    \A u \in Users :
        LET b == GetBalanceSummary(records, u, today)
        IN  /\ b.balance = b.totalIncome - b.totalExpense
            /\ b.balance = SignedSum(NonTransfer(AllTx(Find(records, u))))

\* a user with a transfer leg next to an ordinary entry, and a balance
\* that is not zero
C2_Witness ==
    \E u \in Users :
        LET txs == AllTx(Find(records, u))
        IN  /\ \E k \in 1..Len(txs) : txs[k].category = TransferCategory
            /\ \E k \in 1..Len(txs) : txs[k].category # TransferCategory
            /\ GetBalanceSummary(records, u, today).balance # 0

C4_TransferReversal ==
    \A u \in Users, from \in LegLists, to \in LegLists :
        LET r1 == SaveTransfer(records, transfers, u, today, nextId,
                               [from |-> from, to |-> to])
            r2 == DeleteTransfer(r1.recs, r1.transfers, u, today,
                                 r1.transferID)
        IN  /\ \A v \in Users, d \in Dates :
                  CachedTotals(r2.recs, v, d) = CachedTotals(records, v, d)
            /\ \A v \in Users :
                  GetBalanceByPaymentType(r2.recs, v)
                     = GetBalanceByPaymentType(records, v)
            /\ r2.transfers = transfers

\* the ledger after a transfer was saved and deleted again on a day that
\* already had an entry: the entry and its totals are there, the two ids of
\* the transfer are used up and no transfer and no leg is left
C4_Witness ==
    /\ transfers = <<>>
    /\ nextId >= 4
    /\ Len(AllTx(records)) = nextId - 3
    /\ \E u \in Users :
          /\ ~ \E tid \in 1..MaxIds : HasTransferID(records, u, tid)
          /\ CachedTotals(records, u, today) # <<0, 0>>

\* ---- C5
\* C5: after DeleteTransfer(lineID, transferID) no day record of the user,
\* of any date, holds an entry with that transfer_id, and the transfer
\* record is gone.
C5_DeleteTransferRemovesEveryLeg ==
    \A u \in Users, tid \in Ids :
        LET r == DeleteTransfer(records, transfers, u, today, tid)
        IN  /\ ~ HasTransferID(r.recs, u, tid)
            /\ ~ TransferExists(r.transfers, tid)

\* ---- C6
\* C6: DeleteTransfer of a transfer that is not (or no longer) in the
\* transfers collection returns no error and changes no day record and no
\* transfer, whether or not the user has a day record today.
C6_DeleteTransferIdempotent ==
    \A u \in Users, tid \in Ids :
        ~ TransferExists(transfers, tid) =>
            LET r == DeleteTransfer(records, transfers, u, today, tid)
            IN  /\ r.err = "nil"
                /\ Ledger(r.recs) = Ledger(records)
                /\ r.transfers = transfers

\* ---- C7
\* C7: DeleteTransaction with an id that no entry has returns no error and
\* changes no day record's lists or cached totals, also when the user has
\* no day record today.
C7_DeleteMissingEntryIsNoOp ==
    \A u \in Users, id \in Ids :
        ~ HasEntry(records, id) =>
            LET r == DeleteTransaction(records, u, today, id)
            IN  /\ r.err = "nil"
                /\ Ledger(r.recs) = Ledger(records)

\* ---- C8
\* two completed calls of the given kinds, of the same user, of which the
\* later one began while the earlier one was running
Overlapped(p, q, opsP, opsQ) ==
    /\ p # q
    /\ overlap
    /\ procs[p].pc = "done" /\ procs[q].pc = "done"
    /\ procs[p].op \in opsP /\ procs[q].op \in opsQ
    /\ procs[p].lineid = procs[q].lineid

\* the entry `id` of the user is in a group of GetBalanceByPaymentType and
\* the balance of the group holds its amount
CountedByPaymentType(recs, lineID, id) ==
    LET txs == AllTx(Find(recs, lineID))
    IN  \E k \in 1..Len(txs) :
            /\ txs[k].id = id
            /\ LET key  == PaymentKey(txs[k].usetype, txs[k].bankname,
                                      txs[k].creditcardname)
                   rest == SelectSeq(txs, LAMBDA tx : tx.id # id)
               IN  NetOf(GetBalanceByPaymentType(recs, lineID), key)
                     = NetOf(BalanceLoop(rest, <<>>), key)
                          + txs[k].amount * txs[k].type

\* C8: once two SaveTransaction calls of the same user and date that
\* overlapped have both returned, under every interleaving of their storage
\* operations, each of the two entries is in the ledger, is counted by
\* GetBalanceByPaymentType, and is removed by DeleteTransaction of the id
\* that was returned for it.
C8_ConcurrentSavesKeepBothEntries ==
    \A p \in Procs, q \in Procs :
        Overlapped(p, q, {"saveEntry"}, {"saveEntry"}) =>
            LET u  == procs[p].lineid
                id == procs[p].id
            IN  /\ HasEntry(records, id)
                /\ CountedByPaymentType(records, u, id)
                /\ ~ HasEntry(DeleteTransaction(records, u, today, id).recs,
                              id)

\* ---- C9
\* C9: in every reachable state, overlapping first saves of a day included,
\* no two day records have the same lineid and the same date.
C9_OneDayRecordPerUserAndDate ==
    \A i \in 1..Len(records), j \in 1..Len(records) :
        (i # j) =>
            ~ (/\ records[i].lineid = records[j].lineid
               /\ records[i].date = records[j].date)

\* ---- C10
\* C10: once a SaveTransaction and a DeleteTransaction or
\* UpdateTransactionAmount of the same user and date that overlapped have
\* both returned, under every interleaving of the FindOne and the UpdateOne
\* of recalculateTotals with the other call, the cached totals of the
\* user's day records of that date are the sums of the amounts in their
\* lists.
C10_RecalculationAtomic ==
    \A p \in Procs, q \in Procs :
        Overlapped(p, q, {"saveEntry"},
                   {"deleteEntry", "updateEntryAmount"}) =>
            \A i \in 1..Len(records) :
                (records[i].lineid = procs[p].lineid
                    /\ records[i].date = today) =>
                    /\ records[i].totalIncome
                          = SumAmounts(records[i].incomes)
                    /\ records[i].totalExpense
                          = SumAmounts(records[i].expenses)

\* ---- C11
\* the documents of a collection that carry the user's lineid
Owned(docs, lineID) == SelectSeq(docs, LAMBDA d : d.lineid = lineID)

\* C11: no call made for a user a changes a day record, a transfer or a
\* budget of another user b; DeleteTransfer(a, t) with t the id of a
\* transfer of b leaves b's transfer record and b's entries in place.
C11_NoCrossUserEffect ==
    \A a \in Tenants, b \in Tenants :
        (a # b) =>
            LET Same(recs, trs, buds) ==
                    /\ Owned(recs, b) = Owned(records, b)
                    /\ Owned(trs, b) = Owned(transfers, b)
                    /\ Owned(buds, b) = Owned(budgets, b)
            IN  /\ \A t \in TxTypes, am \in Amounts, c \in Categories,
                      p \in PayMethods :
                      Same(SaveTransaction(records, a, today, nextId,
                                           TransactionData(t, am, c, p)),
                           transfers, budgets)
                /\ \A id \in Ids :
                      Same(DeleteTransaction(records, a, today, id).recs,
                           transfers, budgets)
                /\ \A id \in Ids, am \in Amounts :
                      Same(UpdateTransactionAmount(records, a, today, id,
                                                   am).recs,
                           transfers, budgets)
                /\ \A id \in Ids, p \in PayMethods :
                      Same(UpdateTransactionPayment(records, a, today, id,
                                                    p).recs,
                           transfers, budgets)
                /\ \A from \in LegLists, to \in LegLists :
                      LET r == SaveTransfer(records, transfers, a, today,
                                            nextId, [from |-> from, to |-> to])
                      IN  Same(r.recs, r.transfers, budgets)
                /\ \A tid \in Ids :
                      LET r == DeleteTransfer(records, transfers, a, today,
                                              tid)
                      IN  Same(r.recs, r.transfers, budgets)
                /\ \A c \in Categories, am \in BudgetAmounts :
                      Same(records, transfers, SetBudget(budgets, a, c, am))
                /\ \A c \in Categories :
                      Same(records, transfers, DeleteBudget(budgets, a, c))

\* ---- C12
\* the entries of the user that the call persisted: those with an ObjectID
\* drawn from id on
Persisted(recs, lineID, id) ==
    SelectSeq(AllTx(Find(recs, lineID)), LAMBDA tx : tx.id >= id)

\* C12: on every path of handleTextMessage that saves the transactions of a
\* classifier response (action "new", an unknown action, the old array
\* format), no transaction with amount <= 0 is persisted, and a batch whose
\* amounts are all <= 0 persists no entry.
C12_NonPositiveAmountsDropped ==
    \A u \in Users, response \in Responses :
        (response.kind = "array"
            \/ (response.kind = "object"
                  /\ response.action \in {"new", "unknown"})) =>
            LET r   == handleTextMessage(records, transfers, budgets, u,
                                         today, nextId, response)
                new == Persisted(r.recs, u, nextId)
            IN  /\ \A k \in 1..Len(new) : new[k].amount > 0
                /\ (\A k \in 1..Len(response.transactions) :
                        response.transactions[k].amount <= 0)
                      => new = <<>>

\* ---- C13
SearchLimits == (0 - 1)..MaxLimit

\* C13: SearchTransactions returns at most limit results, at most 20 when
\* limit <= 0, whatever the ledger holds, also when the limit is reached in
\* the incomes of a day record whose expenses match as well.
C13_KeywordSearchCapped ==
    \A u \in Users, keyword \in Keywords, limit \in SearchLimits :
        Len(SearchTransactions(records, u, keyword, limit))
           <= (IF limit <= 0 THEN DefaultSearchLimit ELSE limit)

\* ---- C14
\* C14: SearchByDateRange returns at most limit results, at most 50 when
\* limit <= 0, whatever the ledger holds, also when one day record of the
\* range holds more entries than are left to the limit.
C14_DateRangeSearchCapped ==
    \A u \in Users, startDate \in Dates, endDate \in Dates,
       limit \in SearchLimits :
        Len(SearchByDateRange(records, u, startDate, endDate, limit))
           <= (IF limit <= 0 THEN DefaultRangeLimit ELSE limit)

\* ---- C15
\* what the user spent in the category in the month of `date`: the amounts
\* of the expenses of that category, transfers left out
SpentThisMonth(recs, lineID, date, category) ==
    IF category = TransferCategory THEN 0
    ELSE SumAmounts(SelectSeq(
            AllTx(SelectSeq(recs, LAMBDA r :
                     r.lineid = lineID /\ MonthOf(r.date) = MonthOf(date))),
            LAMBDA tx : tx.type = -1 /\ tx.category = category))

IncomingAmounts == 0..(MaxBudget + 1)

RECURSIVE PreCheckAlerts(_, _, _, _, _, _)
PreCheckAlerts(recs, buds, lineID, date, id, validTransactions) ==
    IF validTransactions = <<>> THEN <<>>
    ELSE BudgetAlerts(recs, buds, lineID, date,
                      << validTransactions[1] >>)
         \o PreCheckAlerts(
               SaveTransaction(recs, lineID, date, id, validTransactions[1]),
               buds, lineID, date, id + 1, Tail(validTransactions))

\* C16: when handleTextMessage records the transactions of a "new"
\* response, the budget alert of each expense is evaluated on the ledger
\* that does not hold that entry yet: its projected spending is the
\* spending before the entry plus the amount of the entry, once.
C16_BudgetAlertIsPreCheck ==
    \A u \in Users, response \in Responses :
        (response.kind = "object" /\ response.action = "new") =>
            handleTextMessage(records, transfers, budgets, u, today, nextId,
                              response).alerts
               = PreCheckAlerts(records, budgets, u, today, nextId,
                                ValidTransactions(response.transactions))

\* ---- C17
\* the entry `id` is in the user's day record of `date`
InRecordOf(recs, lineID, date, id) ==
    LET i == FindOne(recs, lineID, date)
    IN  i # 0 /\ (HasID(recs[i].incomes, id) \/ HasID(recs[i].expenses, id))

\* C17: UpdateTransactionAmount and UpdateTransactionPayment with an id
\* that is not in the user's record of today, the user having such a
\* record or not, return no error and change no day record.
C17_UpdateMissingEntryIsNoOp ==
    \A u \in Users, id \in Ids :
        ~ InRecordOf(records, u, today, id) =>
            /\ \A amount \in Amounts :
                  LET r == UpdateTransactionAmount(records, u, today, id,
                                                   amount)
                  IN  r.err = "nil" /\ Ledger(r.recs) = Ledger(records)
            /\ \A pay \in PayMethods :
                  LET r == UpdateTransactionPayment(records, u, today, id,
                                                    pay)
                  IN  r.err = "nil" /\ Ledger(r.recs) = Ledger(records)

\* ---- C19
\* the transactions of a list that carry the transfer id
LegsOf(list, transferID) ==
    SelectSeq(list, LAMBDA tx : tx.transfer_id = transferID)

\* the k-th entry of the legs is the transaction generated for entries[k]
IsLegOf(tx, entry, txType, transferID) ==
    /\ tx.type = txType
    /\ tx.category = TransferCategory
    /\ tx.transfer_id = transferID
    /\ tx.amount = entry.amount
    /\ tx.usetype = entry.pay.usetype
    /\ tx.bankname = entry.pay.bankname
    /\ tx.creditcardname = entry.pay.creditcardname

C18_UnknownResponseChangesNothing ==
    \A u \in Users, response \in Responses :
        (response.kind = "text"
            \/ (response.kind = "object" /\ response.action = "unknown")) =>
            LET r == handleTextMessage(records, transfers, budgets, u, today,
                                       nextId, response)
            IN  /\ Ledger(r.recs) = Ledger(records)
                /\ r.transfers = transfers
                /\ r.budgets = budgets

\* ---- C20
\* C20: when the write of a generated transaction fails during SaveTransfer,
\* SaveTransfer returns an error; whenever it returns no error, all n + m
\* generated transactions are persisted.
C20_LegFailureIsReported ==
    \A u \in Users, from \in LegLists, to \in LegLists :
        \A failing \in SUBSET TransferIds(nextId, from, to) :
            LET r == SaveTransferFailing(records, transfers, u, today, nextId,
                                         [from |-> from, to |-> to], failing)
            IN  /\ (failing \ {nextId} # {}) => r.err # "nil"
                /\ r.err = "nil" =>
                      Len(LegsOf(AllTx(r.recs), r.transferID))
                          = Len(from) + Len(to)

\* ---- C21
\* C21: SaveTransfer validates its input: for a transfer whose from list or
\* whose to list is empty it stores no transfer record and no entry.
C21_EmptySideIsRejected ==
    \A u \in Users, from \in LegLists, to \in LegLists :
        (from = <<>> \/ to = <<>>) =>
            LET r == SaveTransfer(records, transfers, u, today, nextId,
                                  [from |-> from, to |-> to])
            IN  /\ r.transfers = transfers
                /\ Ledger(r.recs) = Ledger(records)

\* ---- C22
KeyOf(tx) == PaymentKey(tx.usetype, tx.bankname, tx.creditcardname)

\* C22: GetBalanceByPaymentType puts every entry of the user, the entries of
\* transfers included, in exactly one group, the group of its usetype, bank
\* name and credit card name; the balance of a group is the sum of
\* amount * type of its entries and is its totalIncome - totalExpense; the
\* balances of all groups add up to the sum of amount * type of all entries
\* of the user.
C22_PaymentGroupsPartitionEntries ==
    \A u \in Users :
        LET all == AllTx(Find(records, u))
            balanceMap == GetBalanceByPaymentType(records, u)
            group(key) == SelectSeq(all, LAMBDA tx : KeyOf(tx) = key)
        IN  /\ DOMAIN balanceMap = { KeyOf(all[k]) : k \in 1..Len(all) }
            /\ \A key \in DOMAIN balanceMap :
                  LET pb == balanceMap[key]
                  IN  /\ pb.balance = SignedSum(group(key))
                      /\ pb.balance = pb.totalIncome - pb.totalExpense
                      /\ \A k \in 1..Len(group(key)) :
                            /\ group(key)[k].usetype = pb.usetype
                            /\ group(key)[k].bankname = pb.bankname
                            /\ group(key)[k].creditcardname
                                  = pb.creditcardname
            /\ SetSum(DOMAIN balanceMap,
                      [key \in DOMAIN balanceMap |-> balanceMap[key].balance])
                  = SignedSum(all)

\* a user with two payment groups, one of them holding the entry of a
\* transfer, and an ordinary entry
C22_Witness ==
    \E u \in Users :
        LET all == AllTx(Find(records, u))
            balanceMap == GetBalanceByPaymentType(records, u)
        IN  /\ Cardinality(DOMAIN balanceMap) >= 2
            /\ \E k \in 1..Len(all) : all[k].transfer_id # 0
            /\ \E k \in 1..Len(all) : all[k].transfer_id = 0

\* ---- C23
\* the budgets stored for the user and the category
BudgetsOf(buds, lineID, category) ==
    { i \in 1..Len(buds) :
        buds[i].lineid = lineID /\ buds[i].category = category }

\* the amounts stored for the user and the category
AmountsOf(buds, lineID, category) ==
    { buds[i].amount : i \in BudgetsOf(buds, lineID, category) }

\* C23: after any sequence of SetBudget and DeleteBudget calls there is at
\* most one budget per user and category; a SetBudget leaves exactly one
\* budget of its user and category, with its amount, a DeleteBudget leaves
\* none, and neither changes the budget of another user or category: the
\* stored amount is that of the latest SetBudget of the pair.
C23_OneBudgetPerUserAndCategory ==
    /\ \A u \in Tenants, c \in BudgetCategories :
          Cardinality(BudgetsOf(budgets, u, c)) <= 1
    /\ \A u \in Tenants, c \in BudgetCategories :
          LET Others(buds) ==
                  \A v \in Tenants, d \in BudgetCategories :
                      (v # u \/ d # c) =>
                          /\ Cardinality(BudgetsOf(buds, v, d))
                                = Cardinality(BudgetsOf(budgets, v, d))
                          /\ AmountsOf(buds, v, d) = AmountsOf(budgets, v, d)
          IN  /\ \A a \in BudgetAmounts :
                    LET buds == SetBudget(budgets, u, c, a)
                    IN  /\ Cardinality(BudgetsOf(buds, u, c)) = 1
                        /\ AmountsOf(buds, u, c) = {a}
                        /\ GetBudget(buds, u, c)
                              = [ found |-> TRUE, amount |-> a ]
                        /\ Others(buds)
              /\ LET buds == DeleteBudget(budgets, u, c)
                 IN  /\ BudgetsOf(buds, u, c) = {}
                     /\ ~ GetBudget(buds, u, c).found
                     /\ Others(buds)

\* budgets of both users and of both categories, with different amounts,
\* where the budget of u1 is stored after one of u2
C23_Witness ==
    /\ Len(budgets) >= 3
    /\ \E i \in 1..Len(budgets), j \in 1..Len(budgets) :
          /\ i < j
          /\ budgets[i].lineid = "u2" /\ budgets[j].lineid = "u1"
          /\ budgets[i].amount # budgets[j].amount
    /\ \E i \in 1..Len(budgets), j \in 1..Len(budgets) :
          budgets[i].category # budgets[j].category

\* ---- C24
\* the entry is in a day record of the user of a date before `date` and in
\* none of `date`
OnlyEarlier(recs, lineID, date, id) ==
    /\ \E i \in 1..Len(recs) :
          /\ recs[i].lineid = lineID
          /\ recs[i].date < date
          /\ HasID(recs[i].incomes, id) \/ HasID(recs[i].expenses, id)
    /\ ~ InRecordOf(recs, lineID, date, id)

\* C24: DeleteTransaction, UpdateTransactionAmount and
\* UpdateTransactionPayment act on the day record of the current date only:
\* called with the id of an entry that is only in a day record of an earlier
\* date, they leave the lists and the cached totals of every day record,
\* that entry included, unchanged.
C24_EarlierDaysAreOutOfReach ==
    \A u \in Users, id \in Ids :
        OnlyEarlier(records, u, today, id) =>
            /\ Ledger(DeleteTransaction(records, u, today, id).recs)
                  = Ledger(records)
            /\ \A amount \in Amounts :
                  Ledger(UpdateTransactionAmount(records, u, today, id,
                                                 amount).recs)
                      = Ledger(records)
            /\ \A pay \in PayMethods :
                  Ledger(UpdateTransactionPayment(records, u, today, id,
                                                  pay).recs)
                      = Ledger(records)

\* the day after an entry was saved, with entries in the record of the new
\* day as well
C24_Witness ==
    \E u \in Users, id \in Ids :
        /\ OnlyEarlier(records, u, today, id)
        /\ LET i == FindOne(records, u, today)
           IN  /\ i # 0
               /\ records[i].incomes # <<>>
               /\ records[i].expenses # <<>>

\* ---- C25
\* C25: an update of an entry looks at today's incomes list first and at
\* today's expenses list only after that: a call gets to its UpdateOne on
\* the expenses list only from its UpdateOne on the incomes list.
C25_IncomesSearchedFirst ==
    [][\A p \in Procs :
          (procs[p].pc # "upd_expenses" /\ procs'[p].pc = "upd_expenses")
              => procs[p].pc = "upd_incomes"]_vars

\* ---- C26
\* C26: in every reachable state an entry has a transfer id exactly when it
\* has the reserved transfer category: the entries SaveTransfer generates
\* have both, the entries saved as new entries, from receipts and from
\* slips have neither.
C26_TransferCategoryIsReserved ==
    \A k \in 1..Len(AllTx(records)) :
        LET tx == AllTx(records)[k]
        IN  tx.category = TransferCategory <=> tx.transfer_id # 0

\* ---- C27
RECURSIVE SumOverRecords(_, _)
SumOverRecords(docs, field) ==
    IF docs = <<>> THEN 0
    ELSE SumAmounts(docs[1][field]) + SumOverRecords(Tail(docs), field)

\* C27: in every reachable state every entry of an incomes list has type 1
\* and every entry of an expenses list has type -1, so that the sums by
\* list (GetBalanceSummary) and the sums by type (GetBalanceByPaymentType)
\* count the same entries as income and as expense.
C27_ListsAgreeWithTypes ==
    /\ \A i \in 1..Len(records) :
          /\ \A k \in 1..Len(records[i].incomes) :
                records[i].incomes[k].type = 1
          /\ \A k \in 1..Len(records[i].expenses) :
                records[i].expenses[k].type = -1
    /\ \A u \in Users :
          LET docs == Find(records, u)
              balanceMap == GetBalanceByPaymentType(records, u)
              b == GetBalanceSummary(records, u, today)
              byType(t) == SelectSeq(NonTransfer(AllTx(docs)),
                                     LAMBDA tx : tx.type = t)
          IN  /\ SetSum(DOMAIN balanceMap,
                        [key \in DOMAIN balanceMap |->
                            balanceMap[key].totalIncome])
                    = SumOverRecords(docs, "incomes")
              /\ SetSum(DOMAIN balanceMap,
                        [key \in DOMAIN balanceMap |->
                            balanceMap[key].totalExpense])
                    = SumOverRecords(docs, "expenses")
              /\ b.totalIncome = SumAmounts(byType(1))
              /\ b.totalExpense = SumAmounts(byType(-1))

\* day records of two days, the first begun with an expense, with an
\* income and an expense between them
C27_Witness ==
    /\ Len(records) = 2
    /\ records[1].incomes = <<>>
    /\ records[1].expenses # <<>>
    /\ \E u \in Users :
          LET b == GetBalanceSummary(records, u, today)
          IN  b.totalIncome > 0 /\ b.totalExpense > 0

\* ---- C28
\* C28: after any sequence of SaveTransfer, DeleteTransfer,
\* DeleteTransaction and day changes every transfer is whole or gone: for
\* every transfer id either the transfer record exists and the ledger holds
\* an entry for each of its from and to entries, or there is no transfer
\* record and no entry has that transfer id.
C28_TransferAllOrNothing ==
    \A tid \in Ids :
        LET legs == LegsOf(AllTx(records), tid)
        IN  IF TransferExists(transfers, tid)
            THEN \A k \in 1..Len(transfers) :
                    transfers[k].id = tid =>
                        Len(legs) = Len(transfers[k].from)
                                      + Len(transfers[k].to)
            ELSE legs = <<>>

\* ---- C29
AllPositive(recs) ==
    \A k \in 1..Len(AllTx(recs)) : AllTx(recs)[k].amount > 0

\* C29: after any sequence of handled messages every persisted entry has an
\* amount > 0, and an update of the amount to a value <= 0 leaves no entry
\* with an amount <= 0.
C29_AmountsStayPositive ==
    /\ AllPositive(records)
    /\ \A u \in Users, response \in Responses :
          (response.kind = "object" /\ response.action = "update") =>
              (AllPositive(records) =>
                  AllPositive(handleTextMessage(records, transfers, budgets,
                                  u, today, nextId, response).recs))

\* ---- C30
\* the entries of today's record of the user
TodaysEntries(recs, lineID, date) ==
    LET i == FindOne(recs, lineID, date)
    IN  IF i = 0 THEN <<>> ELSE recs[i].incomes \o recs[i].expenses

\* the entry saved last is the one with the greatest ObjectID
SavedLast(txs) ==
    CHOOSE id \in { txs[k].id : k \in 1..Len(txs) } :
        \A k \in 1..Len(txs) : txs[k].id <= id

\* C30: an update changes the entry of today's record that was saved last
\* and no other: after an expense and then an income were saved on the
\* same day, an update of the amount sets the amount of the income.
C30_UpdateHitsLatestEntry ==
    \A u \in Users, response \in Responses :
        (/\ response.kind = "object"
         /\ response.action = "update"
         /\ response.update_field = "amount"
         /\ TodaysEntries(records, u, today) # <<>>) =>
            LET before == TodaysEntries(records, u, today)
                latest == SavedLast(before)
                after  == TodaysEntries(
                              handleTextMessage(records, transfers, budgets,
                                  u, today, nextId, response).recs,
                              u, today)
            IN  /\ Len(after) = Len(before)
                /\ \A k \in 1..Len(before) :
                      after[k] =
                          IF before[k].id = latest
                          THEN [before[k] EXCEPT
                                  !.amount = response.update_amount]
                          ELSE before[k]

=============================================================================
